---- MODULE Spec2Model ----
(***************************************************************************)
(* Model of download_all_comments.py: the paginated fetcher               *)
(* (download_comments_for_post), the checkpoint store (load_checkpoint,   *)
(* save_checkpoint, reset_checkpoint), the batch writer (save_batch) and  *)
(* the run coordinator (main), with process interruption and re-runs.     *)
(*                                                                         *)
(* Durable state (survives an interruption): fs, batches and input_file.  *)
(* errors.log                                                              *)
(* is durable too, but nothing ever reads it: errors_log holds the lines  *)
(* the running process has appended to it.                                *)
(* Everything else is the memory of the running process and is lost when  *)
(* the process is interrupted.  Variables marked "history" are not in the *)
(* program; they record what the process did so that properties can be    *)
(* stated.                                                                 *)
(*                                                                         *)
(* Left out: the wall clock (last_updated, timestamps of errors.log,      *)
(* elapsed), and print_progress / batch_comments, which only feed console *)
(* output.  The sleeps change nothing of the state; the length of the     *)
(* sleep after a failed attempt is modelled on its own (Backoff).          *)
(***************************************************************************)
EXTENDS Integers, Sequences, FiniteSets, TLC

\* ---------------------------------------------------------------- bounds
NumPosts == 3
MaxPages == 2
MaxPerPage == 2
MaxRetries == 2
MaxBatchSize == 2
MaxRuns == 2
MaxAttempt == 4
MaxBackoffBase == 3

\* ------------------------------------------------------------ input data
\* str(p["post_id"]) and int(post_id): the decimal text of an integer id and
\* its parse.  The text is kept apart from the number it denotes.
StrOf(n) == <<"str", n>>

IntOf(s) == s[2]

\* posts_with_comments.json: an ordered list of distinct post ids with the
\* advisory comment_count.
AllPosts == [i \in 1..NumPosts |-> [post_id |-> i, comment_count |-> i % 3]]

\* --args: the values of --batch-size and --max-retries the runs are given.
\* max_retries 0 is accepted by argparse (type=int) and makes the retry loop
\* empty.
BatchSizes == 1..MaxBatchSize

RetryValues == 0..MaxRetries

\* ------------------------------------------------------------ remote API
\* The remote resource: post 1 has MaxPages pages and the others one; page c of
\* post i holds PerPage(i, c) comments (1 and 2 for post 1, then 2, 0); the
\* cursor of page c is c, the first url is cursor 1, and "no next_page" (None)
\* is NoUrl.
NoUrl == 0

FirstUrl == 1

ServerPages(post) == IF post = 1 THEN MaxPages ELSE 1

PerPage(post, cursor) == (post * cursor) % (MaxPerPage + 1)

PageComments(post, cursor) ==
    [k \in 1..PerPage(post, cursor) |-> <<post, cursor, k>>]

NextPage(post, cursor) ==
    IF cursor < ServerPages(post) THEN cursor + 1 ELSE NoUrl

\* Besides a 200 and a 404, what one attempt can end in: 403/429, another status,
\* a Timeout, a ConnectionError, any other Exception.
FailureClasses == {"rate_limited", "other_status", "timeout", "conn_error", "exception"}

\* ------------------------------------------------------------- the files
\* A path holds no file, a file cut short while being written, or a whole
\* JSON document.
NoFile == [kind |-> "absent"]

Partial == [kind |-> "partial"]

File(doc) == [kind |-> "file", doc |-> doc]

CHECKPOINT_FILE == "checkpoint.json"

CheckpointTmpDirect == CHECKPOINT_FILE

CheckpointTmp == "checkpoint.tmp"

Paths == {CHECKPOINT_FILE, CheckpointTmp}

\* load_checkpoint's default: {"completed_post_ids": [], "total_comments_downloaded": 0}
EmptyCheckpoint == [completed_post_ids |-> <<>>, total_comments_downloaded |-> 0]

BatchNums == 1..(NumPosts + 1)

VARIABLES
    fs,             \* durable: path -> NoFile, Partial or a checkpoint record
    batches,        \* durable: batch number -> NoFile, Partial or a list of outcomes
    input_file,     \* durable: posts_with_comments.json, NoFile, Partial or the posts
    errors_log,     \* the lines <<post_id, page>> this process appended to errors.log
    args,           \* the command line of the current / last run
    pc,             \* where the process is ("idle": no process)
    ckpt, completed, total_comments, remaining,
    batch_start, pos, batch_results, batch_num, errors_count,   \* main's locals
    post_id, url, page, attempt, success, all_comments, status, \* the fetcher's locals
    reqlog,         \* history: the requests of the current fetch
    fetched,        \* history: the post ids whose fetch this run started
    outcomes,       \* history: the outcomes this run has produced, in order
    saves,          \* history: save_checkpoint calls completed by this run
    loaded,         \* history: the completed set this run loaded at start
    priorFiles,     \* history: batch numbers that had a whole file when this run started
    lastStart,      \* history: how the current / last run was started
    runs,           \* history: number of runs started
    written,        \* history: the batch numbers this run has written, in order
    interrupted,    \* history: the fetched of the interrupted run before this run (SpecInterrupt)
    saved_counts,   \* history: completed id -> len(comments) of the outcome saved with it
    wait            \* the last sleep computed after a failed attempt (Backoff)

durable == <<fs, batches, input_file>>
env == <<args, interrupted, wait>>
mainLocals == <<errors_log, ckpt, completed, total_comments, remaining, batch_start, pos,
                batch_results, batch_num, errors_count>>
fetchLocals == <<post_id, url, page, attempt, success, all_comments, status>>
history == <<reqlog, fetched, outcomes, saves, loaded, priorFiles, lastStart, runs,
             written, saved_counts>>
vars == <<fs, batches, errors_log, args, pc, ckpt, completed, total_comments,
          remaining, batch_start, pos, batch_results, batch_num, errors_count,
          post_id, url, page, attempt, success, all_comments, status,
          reqlog, fetched, outcomes, saves, loaded, priorFiles, lastStart, runs,
          input_file, written, interrupted, saved_counts, wait>>

\* ---------------------------------------------------------------- helpers
Range(s) == {s[i] : i \in DOMAIN s}

Min(a, b) == IF a < b THEN a ELSE b

RECURSIVE ListOf(_)
\* list(completed): the elements of a set of ids as a list (here by ascending id).
ListOf(S) ==
    IF S = {} THEN <<>>
    ELSE LET m == CHOOSE x \in S : \A y \in S : IntOf(x) <= IntOf(y)
         IN  <<m>> \o ListOf(S \ {m})

StatusOk == [tag |-> "ok", page |-> 0]

StatusNotFound == [tag |-> "404_not_found", page |-> 0]

StatusFailed(p) == [tag |-> "failed_page", page |-> p]

\* remaining[batch_start:batch_start + batch_size] (0-based slice)
Batch == SubSeq(remaining, batch_start + 1,
                Min(batch_start + args.batch_size, Len(remaining)))

PostInfo == Batch[pos]

NoCounts == [id \in {} |-> 0]

NoWait == [class |-> "none", attempt |-> 0, base |-> 0, jitter |-> 0, secs |-> 0]

\* The values a process starts with / is left with when it is gone.
NoLocals ==
    /\ ckpt = EmptyCheckpoint /\ completed = {} /\ total_comments = 0
    /\ remaining = <<>> /\ batch_start = 0 /\ pos = 1 /\ batch_results = <<>>
    /\ batch_num = 1 /\ errors_count = 0 /\ errors_log = <<>>
    /\ post_id = StrOf(0) /\ url = NoUrl /\ page = 0 /\ attempt = 0
    /\ success = FALSE /\ all_comments = <<>> /\ status = StatusOk

InitBase ==
    /\ fs = [p \in Paths |-> NoFile]
    /\ batches = [n \in BatchNums |-> NoFile]
    /\ args \in [batch_size : BatchSizes, max_retries : RetryValues]
    /\ pc = "idle"
    /\ NoLocals
    /\ reqlog = <<>> /\ fetched = <<>> /\ outcomes = <<>> /\ saves = 0
    /\ loaded = {}
    /\ priorFiles = {} /\ lastStart = "none" /\ runs = 0
    /\ written = <<>> /\ interrupted = <<>> /\ saved_counts = NoCounts
    /\ wait = NoWait

\* The input file is in place and well formed.
Init == InitBase /\ input_file = File(AllPosts)

\* ------------------------------------------------------ checkpoint store
\* load_checkpoint: the record of CHECKPOINT_FILE, or the empty state when the
\* file does not exist.  (json.load raises on a file that is not a complete
\* document; such a run ends there, having changed nothing: see Main.)
load_checkpoint(f) ==
    IF f[CHECKPOINT_FILE] = NoFile THEN EmptyCheckpoint ELSE f[CHECKPOINT_FILE].doc

reset_checkpointKeeps(f) == f

\* reset_checkpoint: unlink CHECKPOINT_FILE if it exists.
reset_checkpoint(f) == [f EXCEPT ![CHECKPOINT_FILE] = NoFile]

\* Path.rename: the source replaces the destination and is gone.
Rename(f, src, dst) ==
    IF src = dst THEN f
    ELSE [p \in DOMAIN f |-> IF p = dst THEN f[src]
                             ELSE IF p = src THEN NoFile ELSE f[p]]

\* ------------------------------------------------------ main, at startup
\* completed = set(ckpt["completed_post_ids"])
LoadedCompletedEmpty(ck) == {}

LoadedCompleted(ck) == Range(ck.completed_post_ids)

\* total_comments = ckpt["total_comments_downloaded"]
LoadedTotalZero(ck) == 0

LoadedTotal(ck) == ck.total_comments_downloaded

\* remaining = [p for p in all_posts if str(p["post_id"]) not in completed]
RemainingUnfiltered(done) == input_file.doc

Remaining(done) == SelectSeq(input_file.doc, LAMBDA p : StrOf(p.post_id) \notin done)

\* batch_num = len(completed) // args.batch_size + 1
StartBatchNumOne(done, g) == 1

StartBatchNumCeil(done, g) == (Cardinality(done) + g - 1) \div g + 1

StartBatchNum(done, g) == Cardinality(done) \div g + 1

ResetHistory(how) ==
    /\ reqlog' = <<>> /\ fetched' = <<>> /\ outcomes' = <<>> /\ saves' = 0
    /\ written' = <<>>
    /\ interrupted' = IF pc = "idle" THEN interrupted ELSE <<>>
    /\ priorFiles' = {n \in BatchNums : batches[n].kind = "file"}
    /\ lastStart' = how /\ runs' = runs + 1

\* main() up to the first item (lines 203-253), started with the batch size g;
\* reset is the --reset flag.
Main(reset, g, how) ==
    LET f1 == IF reset THEN reset_checkpoint(fs) ELSE fs
        ck == load_checkpoint(f1)
        done == LoadedCompleted(ck)
        rem == Remaining(done)
    IN  /\ pc \in {"idle", "done", "raised"}
        /\ runs < MaxRuns
        /\ input_file.kind = "file"
        /\ f1[CHECKPOINT_FILE] # Partial
        /\ fs' = f1
        /\ args' = [args EXCEPT !.batch_size = g]
        /\ ckpt' = ck
        /\ completed' = done
        /\ total_comments' = LoadedTotal(ck)
        /\ remaining' = rem
        /\ loaded' = done
        /\ pc' = IF rem = <<>> THEN "done" ELSE "item"
        /\ batch_num' = IF rem = <<>> THEN 1 ELSE StartBatchNum(done, g)
        /\ errors_count' = 0
        /\ batch_start' = 0 /\ pos' = 1 /\ batch_results' = <<>>
        /\ post_id' = StrOf(0) /\ url' = NoUrl /\ page' = 0 /\ attempt' = 0
        /\ success' = FALSE /\ all_comments' = <<>> /\ status' = StatusOk
        /\ errors_log' = <<>>
        /\ ResetHistory(how)
        /\ saved_counts' = IF reset THEN NoCounts ELSE saved_counts
        /\ UNCHANGED <<batches, input_file, wait>>

\* A run with the command line of the run before it.
Run == Main(FALSE, args.batch_size, "run")

\* A run with another --batch-size than the run before it.
RunResized ==
    /\ runs > 0
    /\ \E g \in BatchSizes \ {args.batch_size} : Main(FALSE, g, "resized")

\* A run with --reset.
RunReset ==
    /\ runs > 0
    /\ Main(TRUE, args.batch_size, "reset")

\* ------------------------------------------- download_comments_for_post
\* post_info["comment_count"] (line 255) finds the key.
HasCount(info) == "comment_count" \in DOMAIN info

\* Lines 254-255, the call at lines 257-259 and lines 104-109 of the callee.
FetchStart ==
    /\ pc = "item"
    /\ HasCount(PostInfo)
    /\ post_id' = StrOf(PostInfo.post_id)
    /\ url' = FirstUrl
    /\ all_comments' = <<>>
    /\ page' = 0
    /\ reqlog' = <<>>
    /\ fetched' = Append(fetched, StrOf(PostInfo.post_id))
    /\ pc' = "while"
    /\ UNCHANGED <<durable, env, mainLocals, attempt, success, status,
                   outcomes, saves, loaded, priorFiles, lastStart, runs, written, saved_counts>>

\* The test of "while url:".
LoopTestNever(u) == FALSE

LoopTest(u) == u # NoUrl

\* while url: ... / return all_comments, "ok" (lines 111-115, 172)
WhileUrl ==
    /\ pc = "while"
    /\ IF ~LoopTest(url)
       THEN /\ status' = StatusOk
            /\ pc' = "return"
            /\ UNCHANGED <<page, success, attempt>>
       ELSE /\ page' = page + 1
            /\ success' = FALSE
            /\ IF args.max_retries >= 1
               THEN attempt' = 1 /\ pc' = "request"
               ELSE attempt' = attempt /\ pc' = "after_for"
            /\ UNCHANGED status
    /\ UNCHANGED <<durable, env, mainLocals, post_id, url, all_comments, history>>

\* What the fetcher makes of a response: the records of a 200, the end of the
\* fetch on a 404, and for every other one a wait and the next attempt.
ResultOf(r) == IF r \in FailureClasses THEN "fail" ELSE r

LogRequest(r) == reqlog' = Append(reqlog, [url |-> url, page |-> page, result |-> r])

\* all_comments.extend(comments)
ExtendReplaces(acc, comments) == comments

Extend(acc, comments) == acc \o comments

\* One iteration of the retry loop (lines 115-161): a request and its handling.
Request200 ==
    /\ pc = "request"
    /\ all_comments' = Extend(all_comments, PageComments(IntOf(post_id), url))
    /\ url' = NextPage(IntOf(post_id), url)
    /\ success' = TRUE
    /\ pc' = "after_for"
    /\ LogRequest("200")
    /\ UNCHANGED <<durable, env, mainLocals, post_id, page, attempt, status,
                   fetched, outcomes, saves, loaded, priorFiles, lastStart, runs, written, saved_counts>>

Request404 ==
    /\ pc = "request"
    /\ status' = StatusNotFound
    /\ pc' = "return"
    /\ LogRequest("404")
    /\ UNCHANGED <<durable, env, mainLocals, post_id, url, page, attempt, success,
                   all_comments, fetched, outcomes, saves, loaded, priorFiles,
                   lastStart, runs, written, saved_counts>>

RequestFails ==
    /\ pc = "request"
    /\ \E r \in FailureClasses : LogRequest(ResultOf(r))
    /\ IF attempt < args.max_retries
       THEN attempt' = attempt + 1 /\ pc' = "request"
       ELSE attempt' = attempt /\ pc' = "after_for"
    /\ UNCHANGED <<durable, env, mainLocals, post_id, url, page, success,
                   all_comments, status, fetched, outcomes, saves, loaded,
                   priorFiles, lastStart, runs, written, saved_counts>>

\* f"failed_page_{page}"
FailedStatusOffByOne(p) == StatusFailed(p - 1)

FailedStatus(p) == StatusFailed(p)

\* After the retry loop (lines 163-170).
AfterFor ==
    /\ pc = "after_for"
    /\ IF ~success
       THEN /\ errors_log' = Append(errors_log, <<post_id, page>>)
            /\ status' = FailedStatus(page)
            /\ pc' = "return"
       ELSE /\ pc' = "while"
            /\ UNCHANGED <<errors_log, status>>
    /\ UNCHANGED <<durable, env, ckpt, completed, total_comments, remaining,
                   batch_start, pos, batch_results, batch_num, errors_count,
                   post_id, url, page, attempt, success, all_comments, history>>

\* ------------------------------------------------------- main, per item
Outcome(info, comments, st) ==
    [post_id |-> IntOf(StrOf(info.post_id)),
     expected_comment_count |-> info.comment_count,
     actual_comment_count |-> Len(comments),
     status |-> st,
     comments |-> comments]

\* Where main goes once the in-memory checkpoint is updated: line 276 calls
\* save_checkpoint for every post.
AfterOutcomeSkipSave == "tally"

AfterOutcome == "save_open"

\* Lines 261-275: the outcome is appended to the batch, the totals and the
\* in-memory checkpoint are updated.
ProcessOutcome ==
    /\ pc = "return"
    /\ batch_results' = Append(batch_results, Outcome(PostInfo, all_comments, status))
    /\ total_comments' = total_comments + Len(all_comments)
    /\ completed' = completed \cup {post_id}
    /\ ckpt' = [completed_post_ids |-> ListOf(completed \cup {post_id}),
                total_comments_downloaded |-> total_comments + Len(all_comments)]
    /\ outcomes' = Append(outcomes, Outcome(PostInfo, all_comments, status))
    /\ pc' = AfterOutcome
    /\ UNCHANGED <<durable, env, errors_log, remaining, batch_start, pos,
                   batch_num, errors_count, fetchLocals, reqlog, fetched, saves,
                   loaded, priorFiles, lastStart, runs, written, saved_counts>>

\* save_checkpoint, line 82-83: open(tmp, "w") creates or truncates tmp.
SaveOpen ==
    /\ pc = "save_open"
    /\ fs' = [fs EXCEPT ![CheckpointTmp] = Partial]
    /\ pc' = "save_dump"
    /\ UNCHANGED <<batches, input_file, env, mainLocals, fetchLocals, history>>

\* save_checkpoint, line 84: json.dump(ckpt, f) and the close of the file.
SaveDump ==
    /\ pc = "save_dump"
    /\ fs' = [fs EXCEPT ![CheckpointTmp] = File(ckpt)]
    /\ pc' = "save_rename"
    /\ UNCHANGED <<batches, input_file, env, mainLocals, fetchLocals, history>>

\* save_checkpoint, line 85: tmp.rename(CHECKPOINT_FILE).
SaveRename ==
    /\ pc = "save_rename"
    /\ fs' = Rename(fs, CheckpointTmp, CHECKPOINT_FILE)
    /\ saves' = saves + 1
    /\ saved_counts' = (post_id :> Len(all_comments)) @@ saved_counts
    /\ pc' = "tally"
    /\ UNCHANGED <<batches, input_file, env, mainLocals, fetchLocals,
                   reqlog, fetched, outcomes, loaded, priorFiles, lastStart, runs,
                   written>>

\* if status != "ok" and status != "404_not_found" (line 278)
IsErrorCounting404(st) == st.tag # "ok"

IsError(st) == st.tag # "ok" /\ st.tag # "404_not_found"

\* Lines 278-286 and the step of the inner for loop.
Tally ==
    /\ pc = "tally"
    /\ errors_count' = IF IsError(status) THEN errors_count + 1 ELSE errors_count
    /\ IF pos < Len(Batch)
       THEN pos' = pos + 1 /\ pc' = "item"
       ELSE pos' = pos /\ pc' = "batch_open"
    /\ UNCHANGED <<durable, env, errors_log, ckpt, completed, total_comments,
                   remaining, batch_start, batch_results, batch_num, fetchLocals,
                   history>>

\* save_batch, lines 178-182: open(batch_file, "w") creates or truncates it.
BatchOpen ==
    /\ pc = "batch_open"
    /\ batches' = [batches EXCEPT ![batch_num] = Partial]
    /\ pc' = "batch_dump"
    /\ UNCHANGED <<fs, input_file, env, mainLocals, fetchLocals, history>>

\* batch_num += 1 (line 293)
NextBatchNumSame(n) == n

NextBatchNum(n) == n + 1

\* save_batch, line 183, then lines 289-299 and the step of the outer for loop.
BatchDump ==
    /\ pc = "batch_dump"
    /\ batches' = [batches EXCEPT ![batch_num] = File(batch_results)]
    /\ batch_num' = NextBatchNum(batch_num)
    /\ written' = Append(written, batch_num)
    /\ IF batch_start + args.batch_size < Len(remaining)
       THEN /\ batch_start' = batch_start + args.batch_size
            /\ batch_results' = <<>>
            /\ pos' = 1
            /\ pc' = "item"
       ELSE /\ pc' = "done"
            /\ UNCHANGED <<batch_start, batch_results, pos>>
    /\ UNCHANGED <<fs, input_file, env, errors_log, ckpt, completed, total_comments,
                   remaining, errors_count, fetchLocals, reqlog, fetched, outcomes,
                   saves, loaded, priorFiles, lastStart, runs, saved_counts>>

\* The process is interrupted (Ctrl-C, kill): its memory is gone, the files stay.
\* rec is what the history keeps of the interrupted run.
Interrupt(rec) ==
    /\ pc \notin {"idle", "done", "raised"}
    /\ pc' = "idle"
    /\ ckpt' = EmptyCheckpoint /\ completed' = {} /\ total_comments' = 0
    /\ remaining' = <<>> /\ batch_start' = 0 /\ pos' = 1 /\ batch_results' = <<>>
    /\ batch_num' = 1 /\ errors_count' = 0 /\ errors_log' = <<>>
    /\ post_id' = StrOf(0) /\ url' = NoUrl /\ page' = 0 /\ attempt' = 0
    /\ success' = FALSE /\ all_comments' = <<>> /\ status' = StatusOk
    /\ reqlog' = <<>> /\ fetched' = <<>> /\ outcomes' = <<>> /\ saves' = 0
    /\ loaded' = {} /\ priorFiles' = {} /\ written' = <<>>
    /\ interrupted' = rec
    /\ UNCHANGED <<durable, args, wait, lastStart, runs, saved_counts>>

Crash == Interrupt(<<>>)

\* The same interruption, with the fetches the run had started kept in the history.
CrashRecorded == Interrupt(fetched)

Step ==
    \/ FetchStart \/ WhileUrl \/ Request200 \/ Request404 \/ RequestFails
    \/ AfterFor \/ ProcessOutcome \/ SaveOpen \/ SaveDump \/ SaveRename
    \/ Tally \/ BatchOpen \/ BatchDump

\* Runs with one command line, interrupted and started again, never --reset.
Next == Step \/ Crash \/ Run

Spec == Init /\ [][Next]_vars

\* As Spec, with the history of the interrupted run kept for the run that follows it.
NextInterrupt == Step \/ CrashRecorded \/ Run

SpecInterrupt == Init /\ [][NextInterrupt]_vars

\* As Spec, and a run may be given another --batch-size.
NextResize == Step \/ Crash \/ Run \/ RunResized

SpecResize == Init /\ [][NextResize]_vars

\* As Spec, and a run may be given --reset; the runs have the largest batch size
\* and a single attempt per page.
NextReset == Step \/ Crash \/ Run \/ RunReset

InitReset == Init /\ args = [batch_size |-> MaxBatchSize, max_retries |-> 1]

SpecReset == InitReset /\ [][NextReset]_vars

\* ================================================================ claims
\* What the next load_checkpoint would see as completed.
DurableCompleted == Range(load_checkpoint(fs).completed_post_ids)

WrittenNums == {n \in BatchNums : batches[n].kind = "file"}

\* The identifiers (as the checkpoint spells them) with an outcome in a group file.
BatchIds == UNION {{StrOf(batches[n].doc[i].post_id) : i \in DOMAIN batches[n].doc} :
                   n \in WrittenNums}

InputIds == {StrOf(AllPosts[i].post_id) : i \in DOMAIN AllPosts}

NoDuplicates(seq) == \A i, j \in DOMAIN seq : seq[i] = seq[j] => i = j

\* C1: whenever a run has reached DONE, from an empty checkpoint or resumed after
\* interruptions, the completed identifiers of the durable checkpoint are exactly
\* the identifiers that have an outcome in some group file.
C1_CheckpointEqualsGroupFiles == pc = "done" => DurableCompleted = BatchIds

\* C2: a run fetches only identifiers that were not in the completed set it loaded,
\* each at most once, and when it is done it has fetched all of those; no identifier
\* has two outcomes across the group files.
C2_FetchExactlyRemaining ==
    /\ NoDuplicates(fetched)
    /\ Range(fetched) \cap loaded = {}
    /\ pc = "done" => Range(fetched) = InputIds \ loaded
    /\ \A n, m \in WrittenNums :
         \A i \in DOMAIN batches[n].doc, j \in DOMAIN batches[m].doc :
            batches[n].doc[i].post_id = batches[m].doc[j].post_id => (n = m /\ i = j)

\* A resumed run that found some identifiers completed, fetched the others and is done.
C2_Witness ==
    /\ pc = "done" /\ runs > 1 /\ loaded # {} /\ fetched # <<>>
    /\ WrittenNums # {}

\* C3: the persisted group files are numbered without a gap from 1: if file k > 1
\* has been written, so has every file 1..k-1.
C3_GapFree == \A k \in WrittenNums : \A j \in 1..(k - 1) : j \in WrittenNums

\* C4: a run never opens for writing a group file whose number already had a
\* persisted file when the run started (no --reset involved).
C4_NoOverwrite == pc = "batch_dump" => batch_num \notin priorFiles

\* ------------------------------------------------------------- the fetcher
FetchPcs == {"while", "request", "after_for"}

RECURSIVE PagesUpTo(_, _)
\* The records of pages 1..n of a post, in server order.
PagesUpTo(post, n) ==
    IF n <= 0 THEN <<>> ELSE PagesUpTo(post, n - 1) \o PageComments(post, n)

AttemptsOnPage(p) == {i \in DOMAIN reqlog : reqlog[i].page = p}

\* Every attempt max_retries allows on the current page has been made and failed.
Exhausted ==
    /\ page >= 1
    /\ Cardinality(AttemptsOnPage(page)) = args.max_retries
    /\ \A i \in AttemptsOnPage(page) : reqlog[i].result = "fail"

Successes == {i \in DOMAIN reqlog : reqlog[i].result = "200"}

\* C5: once max_retries attempts on one page have all failed, the fetch ends with
\* failed_page_N, N the 1-indexed page that failed (one more than the pages that
\* succeeded, and the page the failing requests asked for), with one line in the error
\* log and exactly the records of pages 1..N-1 in server order.
C5_FailedAtPage ==
    /\ Exhausted => \/ pc = "after_for" /\ ~success
                    \/ pc \notin FetchPcs /\ status = StatusFailed(page)
    /\ (pc = "return" /\ status.tag = "failed_page") =>
          /\ status.page = Cardinality(Successes) + 1
          /\ \A i \in AttemptsOnPage(page) : reqlog[i].url = status.page
          /\ all_comments = PagesUpTo(IntOf(post_id), status.page - 1)
          /\ SelectSeq(errors_log, LAMBDA l : l[1] = post_id)
                = << <<post_id, status.page>> >>

\* Both attempts on page 2 of post 1 failed after page 1 gave its records.
C5_Witness ==
    /\ pc = "return" /\ status = StatusFailed(2) /\ args.max_retries = 2
    /\ all_comments # <<>>
    /\ Len(reqlog) = 3

\* The outcomes of this run that line 278 has been reached for.
Tallied == IF pc \in {"save_open", "save_dump", "save_rename", "tally"}
           THEN SubSeq(outcomes, 1, Len(outcomes) - 1) ELSE outcomes

\* C6: a 404 is the last request of its fetch, which ends at once with status
\* 404_not_found and the records gathered so far; the post gets exactly one outcome,
\* is checkpointed, and the run's error tally counts only the failed_page outcomes.
C6_NotFound ==
    /\ \A i \in DOMAIN reqlog : reqlog[i].result = "404" =>
          /\ i = Len(reqlog)
          /\ pc \notin FetchPcs
          /\ status = StatusNotFound
    /\ (pc = "return" /\ status = StatusNotFound) =>
          all_comments = PagesUpTo(IntOf(post_id), Cardinality(Successes))
    /\ (pc \in {"save_open", "save_dump", "save_rename", "tally"}
        /\ status = StatusNotFound) =>
          /\ Cardinality({i \in DOMAIN outcomes : outcomes[i].post_id = IntOf(post_id)}) = 1
          /\ outcomes[Len(outcomes)].status = StatusNotFound
          /\ outcomes[Len(outcomes)].comments = all_comments
    /\ (pc = "tally" /\ status = StatusNotFound) => post_id \in DurableCompleted
    /\ errors_count =
          Cardinality({i \in DOMAIN Tallied : Tallied[i].status.tag = "failed_page"})

\* Post 1 answered 404 on its second page; its outcome keeps the records of page 1,
\* it is checkpointed and the tally is about to be taken.
C6_Witness ==
    /\ pc = "tally" /\ status = StatusNotFound /\ all_comments # <<>>
    /\ Len(reqlog) = 2

SavePcs == {"save_open", "save_dump", "save_rename"}

\* The checkpoint as it was before the outcome being saved was added.
PrevCheckpoint ==
    [completed_post_ids |-> ListOf(Range(ckpt.completed_post_ids) \ {post_id}),
     total_comments_downloaded |-> ckpt.total_comments_downloaded - Len(all_comments)]

\* C8: whatever the step at which save_checkpoint is interrupted, CHECKPOINT_FILE is
\* never a file cut short: until the rename the next load reads the whole previous
\* state, after it the whole new state.
C8_SaveAtomic ==
    /\ fs[CHECKPOINT_FILE] # Partial
    /\ pc \in SavePcs => load_checkpoint(fs) = PrevCheckpoint
    /\ pc = "tally" => load_checkpoint(fs) = ckpt

\* Interrupted while the temporary file was being written: the temporary file is cut
\* short, the durable record is the whole previous state.
C8_Witness ==
    /\ pc = "idle" /\ fs[CheckpointTmp] = Partial
    /\ fs[CHECKPOINT_FILE].kind = "file"

\* C9: a step never removes an identifier from the durable completed set, unless it
\* is the start of a run with --reset.
C9_CompletedOnlyGrows ==
    [][\/ DurableCompleted \subseteq DurableCompleted'
       \/ runs' = runs + 1 /\ lastStart' = "reset"]_vars

\* A run resumed after an interruption has added to the set it loaded.
C9_Witness ==
    /\ runs > 1 /\ lastStart = "run" /\ loaded # {}
    /\ loaded \subseteq DurableCompleted /\ loaded # DurableCompleted

\* C10: while an item is being fetched, every item this run fetched before it is in
\* the durable checkpoint, and the run has completed one save per item it processed.
C10_SavedBeforeNext ==
    /\ pc \in FetchPcs =>
          /\ \A i \in 1..(Len(fetched) - 1) : fetched[i] \in DurableCompleted
          /\ saves = Len(fetched) - 1
    /\ pc \in {"item", "tally", "batch_open", "batch_dump", "done"} =>
          saves = Len(outcomes)
    /\ Len(outcomes) <= Len(fetched)

\* The second item of a run is being requested.
C10_Witness == pc = "request" /\ Len(fetched) = 2 /\ saves = 1

\* ------------------------------------------------------- interruption and resume
\* C11: a run started after an interruption fetches again at most one of the
\* identifiers whose fetch the interrupted run had started, and that one is the
\* last the interrupted run started (the item in flight); all the others are skipped.
C11_RefetchAtMostInFlight ==
    /\ \A i \in DOMAIN fetched :
          fetched[i] \in Range(interrupted) => fetched[i] = interrupted[Len(interrupted)]
    /\ Cardinality({i \in DOMAIN fetched : fetched[i] \in Range(interrupted)}) <= 1

\* The run interrupted during its second fetch was restarted, fetched that item again
\* and not the first, and is done.
C11_Witness ==
    /\ pc = "done" /\ Len(interrupted) = 2
    /\ fetched # <<>> /\ fetched[1] = interrupted[2]
    /\ interrupted[1] \notin Range(fetched)

\* The run was started after the interruption of the first run, which had
\* checkpointed the first post of the input and nothing else, with --batch-size 2.
RestartedAfterFirstItem ==
    /\ runs = 2 /\ lastStart = "run" /\ args.batch_size = 2
    /\ interrupted # <<>>
    /\ loaded = {StrOf(AllPosts[1].post_id)}
    /\ priorFiles = {}

\* C12: with --batch-size 2, a run restarted after an interruption that came once the
\* first post was checkpointed and before batch file 1 was written does not fetch the
\* first post; the first batch it writes has number 1 and starts with the outcome of
\* the second post; and when it is done the batch files are numbered from 1 without a
\* gap and none is cut short.
C12_CrashAfterFirstCheckpoint ==
    RestartedAfterFirstItem =>
        /\ StrOf(AllPosts[1].post_id) \notin Range(fetched)
        /\ written # <<>> =>
              /\ written[1] = 1
              /\ batches[1].kind = "file"
              /\ batches[1].doc[1].post_id = AllPosts[2].post_id
        /\ pc = "done" =>
              /\ written # <<>>
              /\ WrittenNums = 1..Len(written)
              /\ \A n \in BatchNums : batches[n] # Partial

\* The first run was interrupted right after the checkpoint of post 1, before the fetch
\* of post 2; the restarted run is done.
C12_Witness ==
    /\ RestartedAfterFirstItem /\ pc = "done"
    /\ interrupted = <<StrOf(AllPosts[1].post_id)>>
    /\ batches[1].kind = "file"

Ceil(n, g) == (n + g - 1) \div g

\* C13: a run from an empty checkpoint that is not interrupted, over n posts with
\* --batch-size g, writes exactly the batch files 1..ceil(n/g); file k holds the outcomes
\* of input items (k-1)*g+1 .. min(k*g, n) in input order; and the durable checkpoint ends
\* with the whole input completed.
C13_UninterruptedLayout ==
    (pc = "done" /\ runs = 1) =>
        LET n == Len(AllPosts)
            g == args.batch_size
        IN  /\ WrittenNums = 1..Ceil(n, g)
            /\ \A k \in BatchNums : batches[k] # Partial
            /\ Len(outcomes) = n
            /\ \A i \in 1..n : outcomes[i].post_id = AllPosts[i].post_id
            /\ \A k \in 1..Ceil(n, g) :
                  /\ batches[k].doc = SubSeq(outcomes, (k - 1) * g + 1, Min(k * g, n))
                  /\ Len(batches[k].doc) \in 1..g
                  /\ Len(batches[k].doc) < g => k = Ceil(n, g)
            /\ DurableCompleted = InputIds

\* Three posts in batches of two, the second not found and the others ok: the first
\* file holds the first two outcomes and the second file the third.
C13_Witness ==
    /\ pc = "done" /\ runs = 1 /\ args.batch_size = 2
    /\ outcomes[1].status = StatusOk /\ outcomes[2].status = StatusNotFound
    /\ outcomes[3].status = StatusOk
    /\ Len(batches[1].doc) = 2 /\ batches[1].doc[2].status = StatusNotFound
    /\ Len(batches[2].doc) = 1

\* ------------------------------------------------------------------ progress
\* A process that is running takes its next step: main is sequential code, every
\* request has a timeout and every sleep ends.  Nothing obliges anybody to start a
\* run or to interrupt one.  The runs have the largest batch size and number of
\* attempts.
NextLive == Step \/ Crash \/ Run

InitLive == Init /\ args = [batch_size |-> MaxBatchSize, max_retries |-> MaxRetries]

SpecLive == InitLive /\ [][NextLive]_vars /\ WF_vars(Step)

Running == pc \notin {"idle", "done", "raised"}

\* The run is done and has fetched every post that remained when it started, each once,
\* with one outcome per fetch in the order of the fetches, all of them in the durable
\* checkpoint.
RunComplete ==
    /\ pc = "done"
    /\ NoDuplicates(fetched)
    /\ Range(fetched) = InputIds \ loaded
    /\ Len(outcomes) = Len(fetched)
    /\ \A i \in DOMAIN outcomes :
          /\ StrOf(outcomes[i].post_id) = fetched[i]
          /\ fetched[i] \in DurableCompleted
    /\ errors_count =
          Cardinality({i \in DOMAIN outcomes : outcomes[i].status.tag = "failed_page"})

\* C14: a running run that is not interrupted reaches DONE having fetched, appended and
\* checkpointed every remaining post exactly once, whatever the statuses of the fetches.
C14_RunCompletes == Running ~> (pc = "idle" \/ RunComplete)

\* A run that is done after an item failed on a page and a later item was still
\* fetched and checkpointed.
C14_Witness ==
    /\ RunComplete /\ Len(outcomes) >= 2
    /\ outcomes[1].status.tag = "failed_page"
    /\ outcomes[2].status.tag = "404_not_found"

\* ------------------------------------------------------------ input errors
\* The input with the comment_count of item k left out.
WithoutCount(k) ==
    [i \in 1..NumPosts |-> IF i = k THEN [post_id |-> AllPosts[i].post_id] ELSE AllPosts[i]]

\* What posts_with_comments.json can be: missing, not a JSON document, the posts, or
\* the posts with one item that has no comment_count.
InputFiles ==
    {NoFile, Partial} \cup {File(AllPosts)} \cup {File(WithoutCount(k)) : k \in 1..NumPosts}

InitInput == InitBase /\ input_file \in InputFiles

\* The process has ended with an uncaught exception or sys.exit(1): its memory is gone.
ProcessGone ==
    /\ pc' = "raised"
    /\ ckpt' = EmptyCheckpoint /\ completed' = {} /\ total_comments' = 0
    /\ remaining' = <<>> /\ batch_start' = 0 /\ pos' = 1 /\ batch_results' = <<>>
    /\ batch_num' = 1 /\ errors_count' = 0 /\ errors_log' = <<>>
    /\ post_id' = StrOf(0) /\ url' = NoUrl /\ page' = 0 /\ attempt' = 0
    /\ success' = FALSE /\ all_comments' = <<>> /\ status' = StatusOk

\* main, lines 205-215: the input file does not exist (sys.exit(1)) or json.load
\* raises on it; reset_checkpoint has already run if --reset was given.
StartupAbort(reset, how) ==
    /\ pc \in {"idle", "done", "raised"}
    /\ runs < MaxRuns
    /\ input_file.kind # "file"
    /\ fs' = IF reset THEN reset_checkpoint(fs) ELSE fs
    /\ ProcessGone
    /\ ResetHistory(how)
    /\ loaded' = {}
    /\ saved_counts' = IF reset THEN NoCounts ELSE saved_counts
    /\ UNCHANGED <<batches, input_file, args, wait>>

RunAborts == StartupAbort(FALSE, "run")

\* main, line 255: post_info["comment_count"] raises KeyError, which nothing catches.
ItemRaises ==
    /\ pc = "item"
    /\ ~HasCount(PostInfo)
    /\ ProcessGone
    /\ UNCHANGED <<durable, env, history>>

\* Runs over any of the input files, none interrupted.
NextInput == Step \/ Run \/ RunAborts \/ ItemRaises

SpecInput == InitInput /\ [][NextInput]_vars

\* C15: a run that ends with an exception (or sys.exit(1)) does so before it has sent a
\* request: it has produced no outcome, unless max_retries is 0 and its fetches send no
\* request at all.
C15_AbortOnlyAtStartup == pc = "raised" => (outcomes = <<>> \/ args.max_retries = 0)

\* ------------------------------------------------- checkpoint store round trip
\* C16: load_checkpoint gives the empty state when there is no checkpoint file; once
\* save_checkpoint has returned, load_checkpoint gives the completed set and the total
\* of the state that was saved; and a run with --reset loads the empty state whatever
\* was saved before, so that all the posts of the input are its remaining work.
C16_RoundTrip ==
    /\ fs[CHECKPOINT_FILE] = NoFile =>
          /\ load_checkpoint(fs) = EmptyCheckpoint
          /\ LoadedCompleted(load_checkpoint(fs)) = {}
          /\ LoadedTotal(load_checkpoint(fs)) = 0
    /\ pc = "tally" =>
          /\ LoadedCompleted(load_checkpoint(fs)) = completed
          /\ LoadedTotal(load_checkpoint(fs)) = total_comments
    /\ (lastStart = "reset" /\ Running) =>
          /\ loaded = {}
          /\ remaining = AllPosts
          /\ saves = 0 => load_checkpoint(fs) = EmptyCheckpoint

\* A run with --reset, started when an earlier run had saved checkpoints and written a
\* batch file, has saved its first checkpoint.
C16_Witness ==
    /\ lastStart = "reset" /\ pc = "tally" /\ priorFiles # {}
    /\ Len(fetched) = 1 /\ completed = {fetched[1]}

\* ------------------------------------------------------------ batch numbering
\* C17: the first batch file a run writes has number
\* floor(size of the completed set it loaded / batch_size) + 1, and every later one
\* the number of the one before it plus 1.
C17_BatchNumbering ==
    /\ written # <<>> => written[1] = Cardinality(loaded) \div args.batch_size + 1
    /\ \A i \in 2..Len(written) : written[i] = written[i - 1] + 1
    /\ pc \in {"batch_open", "batch_dump"} =>
          batch_num = Cardinality(loaded) \div args.batch_size + 1 + Len(written)
    /\ loaded = {} /\ written # <<>> => written[1] = 1

\* A resumed run that loaded a non-empty completed set has written two batch files,
\* the first with a number above 1.
C17_Witness ==
    /\ loaded # {} /\ Len(written) = 2
    /\ written[1] > 1 /\ batches[written[2]].kind = "file"

\* -------------------------------------------------------------------- backoff
\* The sleeps of lines 129-161, in whole seconds: attempt is the 1-based attempt that
\* failed, base the value of --backoff-base.
RECURSIVE Pow2(_)
Pow2(n) == IF n <= 0 THEN 1 ELSE 2 * Pow2(n - 1)

\* --backoff-base: the positive values the runs are given.
BackoffBases == 1..MaxBackoffBase

\* The upper end of random.uniform(0, ..) added to the wait: 3 for a 403/429, 2 for
\* another status, 5 for a ConnectionError, nothing for a Timeout or another Exception.
JitterBound(class) ==
    CASE class = "rate_limited" -> 3
      [] class = "other_status" -> 2
      [] class = "conn_error" -> 5
      [] OTHER -> 0

WaitBaseFlat(class, a, base) == base

\* The wait without its jitter.
WaitBase(class, a, base) ==
    CASE class \in {"rate_limited", "conn_error"} -> base * Pow2(a - 1)
      [] class \in {"other_status", "timeout"} -> base * a
      [] OTHER -> base

\* The wait computed after one failed attempt.
Backoff ==
    /\ \E class \in FailureClasses, a \in 1..MaxAttempt, base \in BackoffBases :
         \E jitter \in 0..JitterBound(class) :
            wait' = [class |-> class, attempt |-> a, base |-> base, jitter |-> jitter,
                     secs |-> WaitBase(class, a, base) + jitter]
    /\ UNCHANGED <<durable, args, interrupted, pc, mainLocals, fetchLocals, history>>

\* The waits of every failure class, attempt and base, one after the other.
SpecBackoff == Init /\ [][Backoff]_vars

\* C18: for attempt >= 1 and a positive base the wait is never negative; its jitter is
\* between 0 and a fixed bound; without the jitter it is base * 2^(attempt-1) for a
\* rate-limited response and for a connection error, base * attempt for another status,
\* and for a timeout it is exactly base * attempt; and for each class the part without
\* jitter does not decrease from one attempt to the next.
C18_BackoffWait ==
    wait # NoWait =>
        /\ wait.attempt >= 1 /\ wait.base > 0
        /\ wait.secs >= 0
        /\ wait.jitter >= 0 /\ wait.jitter <= 5
        /\ wait.class \in {"rate_limited", "conn_error"} =>
              wait.secs - wait.jitter = wait.base * 2^(wait.attempt - 1)
        /\ wait.class = "other_status" =>
              wait.secs - wait.jitter = wait.base * wait.attempt
        /\ wait.class = "timeout" =>
              wait.secs = wait.base * wait.attempt /\ wait.jitter = 0
        /\ \A a \in 1..(MaxAttempt - 1) :
              WaitBase(wait.class, a, wait.base) <= WaitBase(wait.class, a + 1, wait.base)

\* The third attempt was rate limited, with a base of 2 seconds: 8 seconds and the
\* largest jitter.
C18_Witness ==
    /\ wait.class = "rate_limited" /\ wait.attempt = 3 /\ wait.base = 2
    /\ wait.secs = 11

\* ----------------------------------------------------------- the retry loop
\* Of every two requests of a fetch that follow each other, the second asks for the same
\* page when the first failed and for the server's next page when it succeeded; the
\* successful requests are for cursors 1, 2, ... in order; the records gathered are
\* those of the pages that succeeded.
RequestsInOrder ==
    /\ \A i \in 1..(Len(reqlog) - 1) :
          /\ reqlog[i].result = "fail" =>
                /\ reqlog[i + 1].url = reqlog[i].url
                /\ reqlog[i + 1].page = reqlog[i].page
          /\ reqlog[i].result = "200" =>
                /\ reqlog[i + 1].url = NextPage(IntOf(post_id), reqlog[i].url)
                /\ reqlog[i + 1].page = reqlog[i].page + 1
    /\ \A i \in Successes : reqlog[i].url = Cardinality({j \in Successes : j <= i})
    /\ pc \in FetchPcs \cup {"return"} =>
          all_comments = PagesUpTo(IntOf(post_id), Cardinality(Successes))

\* A request is for the current cursor and page; a failed one leaves the records, the
\* cursor and the page number as they were, a successful one appends the records of the
\* page and takes the cursor the server gave.
AttemptFrame ==
    (pc = "request" /\ Len(reqlog') = Len(reqlog) + 1) =>
        LET e == reqlog'[Len(reqlog')]
        IN  /\ e.url = url /\ e.page = page
            /\ page' = page
            /\ e.result = "fail" => (all_comments' = all_comments /\ url' = url)
            /\ e.result = "404" => (all_comments' = all_comments /\ url' = url)
            /\ e.result = "200" =>
                  /\ all_comments' = all_comments \o PageComments(IntOf(post_id), url)
                  /\ url' = NextPage(IntOf(post_id), url)

\* C19: a failed attempt leaves the accumulated records, the cursor and the page number
\* unchanged and the next attempt asks for the same page; only a successful response
\* appends records and advances the cursor; no page is appended twice or skipped.
C19_FailedAttemptFrame == []RequestsInOrder /\ [][AttemptFrame]_vars

\* The first attempt on page 2 of post 1 failed after page 1 gave its records; the
\* second attempt on page 2 is about to be made.
C19_Witness ==
    /\ pc = "request" /\ attempt = 2 /\ page = 2 /\ url = 2
    /\ Len(reqlog) = 2 /\ reqlog[1].result = "200" /\ reqlog[2].result = "fail"
    /\ all_comments = PageComments(IntOf(post_id), 1) /\ all_comments # <<>>

\* --------------------------------------------------------- the record total
RECURSIVE SumOver(_, _)
\* The sum of f over the set S.
SumOver(f, S) ==
    IF S = {} THEN 0
    ELSE LET x == CHOOSE y \in S : TRUE
         IN  f[x] + SumOver(f, S \ {x})

\* C20: in every durable checkpoint, whatever the interruptions and resumed runs before
\* it, total_comments_downloaded is the sum of the actual comment counts of the outcomes
\* of exactly the completed post ids (saved_counts holds, for each id, the count of the
\* outcome that was saved with it; the outcomes that reached a batch file carry it).
C20_TotalMatchesCompleted ==
    LET ck == load_checkpoint(fs)
    IN  /\ DOMAIN saved_counts = Range(ck.completed_post_ids)
        /\ ck.total_comments_downloaded = SumOver(saved_counts, DOMAIN saved_counts)
        /\ \A n \in WrittenNums : \A i \in DOMAIN batches[n].doc :
              /\ StrOf(batches[n].doc[i].post_id) \in DOMAIN saved_counts
              /\ batches[n].doc[i].actual_comment_count
                    = saved_counts[StrOf(batches[n].doc[i].post_id)]
        /\ pc = "tally" =>
              saved_counts[post_id] = outcomes[Len(outcomes)].actual_comment_count

\* A resumed run that loaded a checkpoint with records in it has saved an outcome that
\* has records too.
C20_Witness ==
    /\ runs = 2 /\ pc = "tally" /\ all_comments # <<>>
    /\ \E id \in loaded : saved_counts[id] > 0
    /\ load_checkpoint(fs).total_comments_downloaded > Len(all_comments)

====
